---- MODULE Spec2Model ----
(***************************************************************************)
(* Model of the Gemini Learning Studio: the generation client              *)
(* (generateNotes, generateImage, generateQuiz), the application shell     *)
(* (App), the narration state machine of the notes view, and the quiz view *)
(* (QuizDisplay).                                                          *)
(***************************************************************************)
EXTENDS Integers, Sequences, FiniteSets, Bags, TLC

VARIABLES
    \* generation client, one call observed in isolation
    svcFn, svcIn, svcOut,
    \* App state (useState hooks of App)
    notes, isLoading, loadingMessage, error, topic, quiz, quizState, quizError,
    \* App: the running handleGenerate invocation and the bag of running
    \* handleStartQuiz invocations
    genPc, structuredNotes, imgTasks, quizReqs,
    \* QuizDisplay results mode, while the quiz view is mounted
    showResults,
    \* NotesDisplay: props, state hooks and the utterances ref
    nvMounted, nvNotes, selectedVoice, playbackState, speakingSectionIndex,
    utterancesRef,
    \* the browser's speechSynthesis: utterance queue, paused flag, whether
    \* the head utterance is being spoken, the onvoiceschanged handler, the
    \* events queued for dispatch, and how this browser reports a cancel
    synthQueue, synthPaused, synthActive, voicesHandler, synthEvents,
    synthCancelMode,
    \* QuizDisplay: the quiz prop, the question cursor and the answer map
    \* (its showResults hook is the variable above)
    qdQuiz, currentQuestionIndex, answers

svcVars == <<svcFn, svcIn, svcOut>>
appVars == <<notes, isLoading, loadingMessage, error, topic, quiz, quizState,
             quizError, genPc, structuredNotes, imgTasks, quizReqs,
             showResults>>
narrVars == <<nvMounted, nvNotes, selectedVoice, playbackState,
              speakingSectionIndex, utterancesRef,
              synthQueue, synthPaused, synthActive, voicesHandler, synthEvents,
              synthCancelMode>>
quizViewVars == <<qdQuiz, currentQuestionIndex, answers>>
vars == <<svcVars, appVars, narrVars, quizViewVars>>
nonSvcVars == <<appVars, narrVars, quizViewVars>>
nonAppVars == <<svcVars, narrVars, quizViewVars>>
nonNarrVars == <<svcVars, appVars, quizViewVars>>
nonQuizViewVars == <<svcVars, narrVars, notes, isLoading, loadingMessage, error,
                     topic, quiz, quizState, quizError, genPc, structuredNotes,
                     imgTasks, quizReqs>>

----------------------------------------------------------------------------
(* Bounds *)

MaxSections == 2
QuizExtra == 1
MaxQuizInFlight == 2
MaxEvents == 2
MaxVoices == 2
MaxQuestions == 3
MaxNarrSections == 3
MaxVoiceListLen == 3
MaxTotalQuestions == 16

(* Program constants *)

QuizLength == 10
NumOptions == 4

----------------------------------------------------------------------------
(* JavaScript values.  Every value is a tagged record. *)

Undefined == [t |-> "undefined"]
JNull == [t |-> "null"]
JStr(s) == [t |-> "str", s |-> s]
JArr(items) == [t |-> "arr", items |-> items]

Null == JNull

IsArray(v) == v.t = "arr"
IsNullish(v) == v.t \in {"undefined", "null"}

\* property read v.f of a non-nullish value: undefined when absent
Get(v, f) == IF f \in DOMAIN v THEN v[f] ELSE Undefined

\* JavaScript truthiness of the values used here
Truthy(v) ==
    CASE v.t = "undefined" -> FALSE
      [] v.t = "null" -> FALSE
      [] v.t = "str" -> v.s # ""
      [] OTHER -> TRUE

StartsWith(s, p) == Len(s) >= Len(p) /\ SubSeq(s, 1, Len(p)) = p

\* `${x}` inside a template literal
TemplateStr(v) ==
    CASE v.t = "str" -> v.s
      [] v.t = "undefined" -> "undefined"
      [] v.t = "null" -> "null"
      [] OTHER -> "[object Object]"

----------------------------------------------------------------------------
(* Outcomes of a remote call: the promise rejects, or resolves with a      *)
(* response.  A text response carries response.text, which is undefined or *)
(* a text that JSON.parse accepts (yielding `value`) or rejects.           *)

Rejected == [kind |-> "reject"]
TextResponse(text) == [kind |-> "response", text |-> text]
NoText == Undefined
JsonText(v) == [t |-> "text", parses |-> TRUE, value |-> v]
BadText == [t |-> "text", parses |-> FALSE, value |-> Undefined]

\* JSON.parse(text.trim())
JSONParse(text) ==
    IF text.t = "text" /\ text.parses
    THEN [ok |-> TRUE, value |-> text.value]
    ELSE [ok |-> FALSE, value |-> Undefined]

Returned(v) == [state |-> "returned", value |-> v]
Raised(m) == [state |-> "raised", message |-> m]
Pending == [state |-> "pending"]

NotesFailedMsg == "Failed to generate notes. Please check the topic and try again."
QuizInvalidMsg == "Received invalid quiz data from API."
QuizFailedMsg == "Failed to generate a quiz for this topic. Please try again."
PlaceholderUrl == "https://picsum.photos/1280/720"
DataUriPrefix == "data:image/jpeg;base64,"

----------------------------------------------------------------------------
(* generateNotes *)

\* the try block: await generateContent, response.text.trim(), JSON.parse
generateNotesTry(o) ==
    IF o.kind = "reject" THEN Raised("rejected")
    ELSE IF o.text.t # "text" THEN Raised("TypeError")
    ELSE LET p == JSONParse(o.text) IN
         IF ~p.ok THEN Raised("SyntaxError")
         ELSE Returned(p.value)

generateNotes_DropLast(o) ==
    LET r == generateNotesTry(o) IN
    IF r.state = "raised" THEN Raised(NotesFailedMsg)
    ELSE IF IsArray(r.value) /\ Len(r.value.items) > 0
         THEN Returned(JArr(SubSeq(r.value.items, 1, Len(r.value.items) - 1)))
         ELSE r

generateNotes(o) ==
    LET r == generateNotesTry(o) IN
    IF r.state = "raised" THEN Raised(NotesFailedMsg) ELSE r

----------------------------------------------------------------------------
(* generateImage *)

ImageResponse(generatedImages) ==
    [kind |-> "response", generatedImages |-> generatedImages]

generateImageTry_NoPrefix(o) ==
    IF o.kind = "reject" THEN Raised("rejected")
    ELSE LET imgs == o.generatedImages IN
         IF IsNullish(imgs) THEN Raised("TypeError")
         ELSE IF Len(imgs.items) = 0 THEN Raised("TypeError")
         ELSE IF IsNullish(imgs.items[1]) THEN Raised("TypeError")
         ELSE IF IsNullish(Get(imgs.items[1], "image")) THEN Raised("TypeError")
         ELSE Returned(TemplateStr(Get(Get(imgs.items[1], "image"), "imageBytes")))

\* the try block: response.generatedImages[0].image.imageBytes; each read
\* of a property of undefined/null throws a TypeError
generateImageTry(o) ==
    IF o.kind = "reject" THEN Raised("rejected")
    ELSE LET imgs == o.generatedImages IN
         IF IsNullish(imgs) THEN Raised("TypeError")
         ELSE IF Len(imgs.items) = 0 THEN Raised("TypeError")
         ELSE IF IsNullish(imgs.items[1]) THEN Raised("TypeError")
         ELSE IF IsNullish(Get(imgs.items[1], "image")) THEN Raised("TypeError")
         ELSE Returned(DataUriPrefix \o
                  TemplateStr(Get(Get(imgs.items[1], "image"), "imageBytes")))

generateImage_Rethrow(o) ==
    generateImageTry(o)

generateImage(o) ==
    LET r == generateImageTry(o) IN
    IF r.state = "raised" THEN Returned(PlaceholderUrl) ELSE r

----------------------------------------------------------------------------
(* generateQuiz *)

\* the validation `if`: true when the parsed value is not an array, is an
\* empty array, or its first element has no truthy `question`
QuizInvalid(v) ==
    \/ ~IsArray(v)
    \/ Len(v.items) = 0
    \/ ~Truthy(Get(v.items[1], "question"))

\* the try block; reading .question of a null first element throws a
\* TypeError, and the "invalid quiz data" error is thrown inside the try
generateQuizTry(o) ==
    IF o.kind = "reject" THEN Raised("rejected")
    ELSE IF o.text.t # "text" THEN Raised("TypeError")
    ELSE LET p == JSONParse(o.text) IN
         IF ~p.ok THEN Raised("SyntaxError")
         ELSE IF IsArray(p.value) /\ Len(p.value.items) > 0
                 /\ IsNullish(p.value.items[1]) THEN Raised("TypeError")
         ELSE IF QuizInvalid(p.value) THEN Raised(QuizInvalidMsg)
         ELSE Returned(p.value)

\* the catch replaces every error of the try block by the generic one
generateQuiz(o) ==
    LET r == generateQuizTry(o) IN
    IF r.state = "raised" THEN Raised(QuizFailedMsg) ELSE r

----------------------------------------------------------------------------
(* Inputs of the generation client *)

Obj == [t |-> "obj"]

Section(h, c, p) ==
    [t |-> "obj", heading |-> JStr(h), content |-> JStr(c), imagePrompt |-> JStr(p)]

SectionShapes ==
    { Section(h, c, p) : h \in {"", "H"}, c \in {"", "C"}, p \in {"", "P"} }

SeqsUpTo(S, n) == UNION { [1..k -> S] : k \in 0..n }

NotesValues ==
    {JNull, JStr("notes"), Obj} \cup { JArr(s) : s \in SeqsUpTo(SectionShapes, MaxSections) }

NotesOutcomes ==
    {Rejected, TextResponse(NoText), TextResponse(BadText)}
        \cup { TextResponse(JsonText(v)) : v \in NotesValues }

ImageObj(bytes) == [t |-> "obj", image |-> [t |-> "obj", imageBytes |-> bytes]]

ImageOutcomes ==
    {Rejected, ImageResponse(Undefined), ImageResponse(JArr(<<>>)),
     ImageResponse(JArr(<<Undefined>>)),
     ImageResponse(JArr(<<[t |-> "obj", image |-> Undefined]>>))}
        \cup { ImageResponse(JArr(<<ImageObj(b)>>)) :
                 b \in {Undefined, JStr(""), JStr("AAAA"), JStr("/9j/4AAQ")} }
        \cup { ImageResponse(JArr(<<ImageObj(JStr("AAAA")), ImageObj(JStr("BBBB"))>>)) }

OptionNames == <<"A", "B", "C", "D", "E">>

Question(q, opts, a) ==
    [t |-> "obj", question |-> q, options |-> JArr(opts),
     correctAnswer |-> JStr(a), explanation |-> JStr("because")]

FourOptions == [i \in 1..NumOptions |-> JStr(OptionNames[i])]

QuestionShapes ==
    { Question(JStr("Q"), FourOptions, "A"),      \* as the prompt asks
      Question(JStr("Q"), FourOptions, "Z"),      \* answer not among the options
      Question(JStr("Q"), <<>>, "A"),             \* no options
      Question(JStr(""), FourOptions, "A"),       \* empty question
      Question(Undefined, FourOptions, "A") }     \* no question

\* arrays whose first element has one shape and the others another
QuizArrays ==
    { JArr([i \in 1..n |-> IF i = 1 THEN a ELSE b]) :
        n \in 0..(QuizLength + QuizExtra), a \in QuestionShapes, b \in QuestionShapes }

QuizValues ==
    {JNull, JStr("quiz"), Question(JStr("Q"), FourOptions, "A"), JArr(<<JNull>>)}
        \cup QuizArrays

QuizOutcomes ==
    {Rejected, TextResponse(NoText), TextResponse(BadText)}
        \cup { TextResponse(JsonText(v)) : v \in QuizValues }

----------------------------------------------------------------------------
(* The generation client, one call at a time: the input is drawn at Init   *)
(* and the action applies the function to it.                              *)

\* no notes view is mounted and the speech engine is idle
NarrIdle ==
    /\ nvMounted = FALSE
    /\ nvNotes = <<>>
    /\ selectedVoice = Null
    /\ playbackState = "stopped"
    /\ speakingSectionIndex = -1
    /\ utterancesRef = <<>>
    /\ synthQueue = <<>>
    /\ synthPaused = FALSE
    /\ synthActive = FALSE
    /\ voicesHandler = FALSE
    /\ synthEvents = <<>>

\* no quiz view is mounted
NoAnswers == [i \in {} |-> ""]

QuizViewIdle ==
    /\ qdQuiz = <<>>
    /\ currentQuestionIndex = 0
    /\ answers = NoAnswers

AppIdle ==
    /\ notes = Null
    /\ isLoading = FALSE
    /\ loadingMessage = ""
    /\ error = Null
    /\ topic = ""
    /\ quiz = Null
    /\ quizState = "idle"
    /\ quizError = Null
    /\ genPc = "idle"
    /\ structuredNotes = Undefined
    /\ imgTasks = <<>>
    /\ quizReqs = EmptyBag
    /\ showResults = FALSE

InitGen ==
    /\ \/ svcFn = "generateNotes" /\ svcIn \in NotesOutcomes
       \/ svcFn = "generateImage" /\ svcIn \in ImageOutcomes
       \/ svcFn = "generateQuiz" /\ svcIn \in QuizOutcomes
    /\ svcOut = Pending
    /\ AppIdle
    /\ NarrIdle
    /\ QuizViewIdle
    /\ synthCancelMode = "none"

CallGenerateNotes ==
    /\ svcFn = "generateNotes"
    /\ svcOut = Pending
    /\ svcOut' = generateNotes(svcIn)
    /\ UNCHANGED <<svcFn, svcIn, nonSvcVars>>

CallGenerateImage ==
    /\ svcFn = "generateImage"
    /\ svcOut = Pending
    /\ svcOut' = generateImage(svcIn)
    /\ UNCHANGED <<svcFn, svcIn, nonSvcVars>>

CallGenerateQuiz ==
    /\ svcFn = "generateQuiz"
    /\ svcOut = Pending
    /\ svcOut' = generateQuiz(svcIn)
    /\ UNCHANGED <<svcFn, svcIn, nonSvcVars>>

NextGen == CallGenerateNotes \/ CallGenerateImage \/ CallGenerateQuiz

SpecGen == InitGen /\ [][NextGen]_vars

----------------------------------------------------------------------------
(* Application shell (App) *)

Topics == {"Photosynthesis", "The Roman Empire"}

CraftingMsg == "Crafting your learning materials..."
EmptyNotesMsg == "Could not generate notes for this topic. Please try a different one."
UnknownErrorMsg == "An unknown error occurred."
QuizFallbackMsg == "Could not generate the quiz."

ImagesMsg(n) == "Generating " \o ToString(n) \o " images to illustrate your notes..."

\* e.message || fallback
MessageOr(m, fallback) == IF m # "" THEN m ELSE fallback

\* what the remote calls of the application answer
AppSection(i) == Section("H" \o ToString(i), "C" \o ToString(i), "P" \o ToString(i))

AppNotesOutcomes ==
    {Rejected, TextResponse(BadText), TextResponse(JsonText(Obj))}
        \cup { TextResponse(JsonText(JArr([i \in 1..n |-> AppSection(i)]))) :
                 n \in {0, MaxSections} }

AppImageOutcomes ==
    {Rejected, ImageResponse(JArr(<<ImageObj(JStr("AAAA"))>>))}

AppQuizOutcomes ==
    {Rejected, TextResponse(JsonText(JArr(<<>>))),
     TextResponse(JsonText(JArr([i \in 1..QuizLength |->
         Question(JStr("Q"), FourOptions, "A")])))}

\* renderContent: the quiz view is rendered
QuizViewShown == quizState = "active" /\ quiz # Null
\* renderContent: the notes view is rendered
NotesViewShown == ~QuizViewShown /\ notes # Null /\ ~isLoading
\* the topic form is rendered
TopicFormShown == notes = Null /\ ~isLoading
\* the "Start a new topic" button is rendered
ResetShown == notes # Null /\ ~isLoading

Init ==
    /\ svcFn = "none"
    /\ svcIn = Undefined
    /\ svcOut = Pending
    /\ AppIdle
    /\ NarrIdle
    /\ QuizViewIdle
    /\ synthCancelMode = "none"

HandleGenerate_KeepErrors(inputTopic) ==
    /\ TopicFormShown
    /\ inputTopic # "" /\ ~isLoading
    /\ isLoading' = TRUE
    /\ notes' = Null
    /\ topic' = inputTopic
    /\ quiz' = Null
    /\ quizState' = "idle"
    /\ loadingMessage' = CraftingMsg
    /\ genPc' = "awaitNotes"
    /\ structuredNotes' = Undefined
    /\ imgTasks' = <<>>
    /\ showResults' = FALSE
    /\ UNCHANGED <<nonAppVars, quizReqs, error, quizError>>

\* TopicInput.handleSubmit calling handleGenerate, up to the first await
HandleGenerate(inputTopic) ==
    /\ TopicFormShown
    /\ inputTopic # "" /\ ~isLoading
    /\ isLoading' = TRUE
    /\ error' = Null
    /\ notes' = Null
    /\ topic' = inputTopic
    /\ quiz' = Null
    /\ quizState' = "idle"
    /\ quizError' = Null
    /\ loadingMessage' = CraftingMsg
    /\ genPc' = "awaitNotes"
    /\ structuredNotes' = Undefined
    /\ imgTasks' = <<>>
    /\ showResults' = FALSE
    /\ UNCHANGED <<nonAppVars, quizReqs>>

GenerateFailed_StillLoading(message) ==
    /\ error' = JStr(MessageOr(message, UnknownErrorMsg))
    /\ loadingMessage' = ""
    /\ genPc' = "idle"
    /\ structuredNotes' = Undefined
    /\ imgTasks' = <<>>
    /\ UNCHANGED <<notes, isLoading>>

\* catch and finally of handleGenerate; the invocation is over and its
\* locals are gone
GenerateFailed(message) ==
    /\ error' = JStr(MessageOr(message, UnknownErrorMsg))
    /\ isLoading' = FALSE
    /\ loadingMessage' = ""
    /\ genPc' = "idle"
    /\ structuredNotes' = Undefined
    /\ imgTasks' = <<>>
    /\ UNCHANGED notes

NotesSettled_NoLengthCheck(o) ==
    /\ genPc = "awaitNotes"
    /\ LET r == generateNotes(o) IN
       IF r.state = "raised"
       THEN GenerateFailed(r.message)
       ELSE IF IsNullish(r.value) \/ ~IsArray(r.value)
       THEN GenerateFailed("TypeError")
       ELSE IF Len(r.value.items) = 0
       THEN /\ notes' = r.value
            /\ isLoading' = FALSE
            /\ loadingMessage' = ""
            /\ genPc' = "idle"
            /\ structuredNotes' = Undefined
            /\ imgTasks' = <<>>
            /\ UNCHANGED error
       ELSE /\ structuredNotes' = r.value
            /\ loadingMessage' = ImagesMsg(Len(r.value.items))
            /\ imgTasks' = [i \in 1..Len(r.value.items) |->
                               [pc |-> "delay", imageUrl |-> ""]]
            /\ genPc' = "awaitImages"
            /\ UNCHANGED <<notes, isLoading, error>>
    /\ UNCHANGED <<nonAppVars, topic, quiz, quizState, quizError, quizReqs, showResults>>

\* generateNotes settles: the length check and the launch of the image batch
NotesSettled(o) ==
    /\ genPc = "awaitNotes"
    /\ LET r == generateNotes(o) IN
       IF r.state = "raised"
       THEN GenerateFailed(r.message)
       ELSE IF IsNullish(r.value) \/ ~IsArray(r.value)
       THEN \* .length of null, or .map of a value that is no array
            GenerateFailed("TypeError")
       ELSE IF Len(r.value.items) = 0
       THEN GenerateFailed(EmptyNotesMsg)
       ELSE /\ structuredNotes' = r.value
            /\ loadingMessage' = ImagesMsg(Len(r.value.items))
            /\ imgTasks' = [i \in 1..Len(r.value.items) |->
                               [pc |-> "delay", imageUrl |-> ""]]
            /\ genPc' = "awaitImages"
            /\ UNCHANGED <<notes, isLoading, error>>
    /\ UNCHANGED <<nonAppVars, topic, quiz, quizState, quizError, quizReqs, showResults>>

\* the setTimeout(index * 100) of task i fires and the task calls
\* generateImage; timers set together fire in the order of their delays
ImageTimer(i) ==
    /\ genPc = "awaitImages"
    /\ i \in 1..Len(imgTasks)
    /\ imgTasks[i].pc = "delay"
    /\ \A j \in 1..(i - 1) : imgTasks[j].pc # "delay"
    /\ imgTasks' = [imgTasks EXCEPT ![i].pc = "inflight"]
    /\ UNCHANGED <<nonAppVars, notes, isLoading, loadingMessage, error, topic, quiz,
                   quizState, quizError, genPc, structuredNotes, quizReqs,
                   showResults>>

\* { ...note, imageUrl }
WithImage(note, url) ==
    [t |-> "obj", heading |-> Get(note, "heading"), content |-> Get(note, "content"),
     imagePrompt |-> Get(note, "imagePrompt"), imageUrl |-> JStr(url)]

ImageSettled_Reversed(i, o) ==
    /\ genPc = "awaitImages"
    /\ i \in 1..Len(imgTasks)
    /\ imgTasks[i].pc = "inflight"
    /\ LET r == generateImage(o) IN
       IF r.state = "raised"
       THEN GenerateFailed(r.message)
       ELSE LET tasks == [imgTasks EXCEPT ![i] = [pc |-> "done", imageUrl |-> r.value]]
            IN
            /\ IF \A j \in 1..Len(tasks) : tasks[j].pc = "done"
               THEN /\ notes' = JArr([j \in 1..Len(tasks) |->
                              WithImage(structuredNotes.items[j],
                                        tasks[Len(tasks) + 1 - j].imageUrl)])
                    /\ isLoading' = FALSE
                    /\ loadingMessage' = ""
                    /\ genPc' = "idle"
                    /\ structuredNotes' = Undefined
                    /\ imgTasks' = <<>>
               ELSE /\ imgTasks' = tasks
                    /\ UNCHANGED <<notes, isLoading, loadingMessage, genPc,
                                   structuredNotes>>
            /\ UNCHANGED error
    /\ UNCHANGED <<nonAppVars, topic, quiz, quizState, quizError, quizReqs, showResults>>

\* the generateImage call of task i settles; when it is the last one,
\* Promise.all resolves and the handler sets the notes and finishes
ImageSettled(i, o) ==
    /\ genPc = "awaitImages"
    /\ i \in 1..Len(imgTasks)
    /\ imgTasks[i].pc = "inflight"
    /\ LET r == generateImage(o) IN
       IF r.state = "raised"
       THEN \* the task rejects, Promise.all rejects, the catch runs
            GenerateFailed(r.message)
       ELSE LET tasks == [imgTasks EXCEPT ![i] = [pc |-> "done", imageUrl |-> r.value]]
            IN
            /\ IF \A j \in 1..Len(tasks) : tasks[j].pc = "done"
               THEN /\ notes' = JArr([j \in 1..Len(tasks) |->
                              WithImage(structuredNotes.items[j], tasks[j].imageUrl)])
                    /\ isLoading' = FALSE
                    /\ loadingMessage' = ""
                    /\ genPc' = "idle"
                    /\ structuredNotes' = Undefined
                    /\ imgTasks' = <<>>
               ELSE /\ imgTasks' = tasks
                    /\ UNCHANGED <<notes, isLoading, loadingMessage, genPc,
                                   structuredNotes>>
            /\ UNCHANGED error
    /\ UNCHANGED <<nonAppVars, topic, quiz, quizState, quizError, quizReqs, showResults>>

\* generateQuiz(topic, notes), called and not yet settled
QuizRequest(t, ns) == [topic |-> t, notes |-> ns]

\* handleStartQuiz up to the await: the closure holds the notes and the
\* topic of the render the button belongs to
HandleStartQuiz ==
    /\ NotesViewShown
    /\ quizState # "generating"
    /\ BagCardinality(quizReqs) < MaxQuizInFlight
    /\ IF notes = Null
       THEN UNCHANGED <<quizState, quizError, quizReqs>>
       ELSE /\ quizState' = "generating"
            /\ quizError' = Null
            /\ quizReqs' = quizReqs (+) SetToBag({QuizRequest(topic, notes)})
    /\ UNCHANGED <<nonAppVars, notes, isLoading, loadingMessage, error, topic, quiz,
                   genPc, structuredNotes, imgTasks, showResults>>

\* the generateQuiz call of a running handleStartQuiz settles; req is what
\* that invocation was called with
QuizSettled(req, o) ==
    /\ BagIn(req, quizReqs)
    /\ quizReqs' = quizReqs (-) SetToBag({req})
    /\ LET r == generateQuiz(o) IN
       IF r.state = "returned"
       THEN /\ quiz' = r.value
            /\ quizState' = "active"
            /\ showResults' = showResults
            /\ UNCHANGED quizError
       ELSE /\ quizError' = JStr(MessageOr(r.message, QuizFallbackMsg))
            /\ quizState' = "idle"
            /\ showResults' = FALSE
            /\ UNCHANGED quiz
    /\ UNCHANGED <<nonAppVars, notes, isLoading, loadingMessage, error, topic,
                   genPc, structuredNotes, imgTasks>>

HandleReset ==
    /\ ResetShown
    /\ notes' = Null
    /\ quiz' = Null
    /\ quizState' = "idle"
    /\ error' = Null
    /\ quizError' = Null
    /\ topic' = ""
    /\ showResults' = FALSE
    /\ UNCHANGED <<nonAppVars, isLoading, loadingMessage, genPc, structuredNotes,
                   imgTasks, quizReqs>>

\* the "Back to Notes" button of the results view
HandleBackToNotes ==
    /\ QuizViewShown
    /\ showResults
    /\ quiz' = Null
    /\ quizState' = "idle"
    /\ quizError' = Null
    /\ showResults' = FALSE
    /\ UNCHANGED <<nonAppVars, notes, isLoading, loadingMessage, error, topic,
                   genPc, structuredNotes, imgTasks, quizReqs>>

\* QuizDisplay: the user answers every question and submits; the submit
\* button needs one recorded answer per question
QuizSubmit ==
    /\ QuizViewShown
    /\ ~showResults
    /\ \A i \in 1..Len(quiz.items) : Len(quiz.items[i].options.items) > 0
    /\ showResults' = TRUE
    /\ UNCHANGED <<nonAppVars, notes, isLoading, loadingMessage, error, topic, quiz,
                   quizState, quizError, genPc, structuredNotes, imgTasks, quizReqs>>

\* QuizDisplay.handleRetake
QuizRetake ==
    /\ QuizViewShown
    /\ showResults
    /\ showResults' = FALSE
    /\ UNCHANGED <<nonAppVars, notes, isLoading, loadingMessage, error, topic, quiz,
                   quizState, quizError, genPc, structuredNotes, imgTasks, quizReqs>>

Next ==
    \/ \E t \in Topics : HandleGenerate(t)
    \/ \E o \in AppNotesOutcomes : NotesSettled(o)
    \/ \E i \in 1..Len(imgTasks) : ImageTimer(i)
    \/ \E i \in 1..Len(imgTasks), o \in AppImageOutcomes : ImageSettled(i, o)
    \/ HandleStartQuiz
    \/ \E req \in BagToSet(quizReqs), o \in AppQuizOutcomes : QuizSettled(req, o)
    \/ HandleReset
    \/ HandleBackToNotes
    \/ QuizSubmit
    \/ QuizRetake

Spec == Init /\ [][Next]_vars

\* the next step of the running submission: its notes call settles, a timer
\* of its image tasks fires, or an image call settles
GenerateStep ==
    \/ \E o \in AppNotesOutcomes : NotesSettled(o)
    \/ \E i \in 1..Len(imgTasks) : ImageTimer(i)
    \/ \E i \in 1..Len(imgTasks), o \in AppImageOutcomes : ImageSettled(i, o)

\* every remote call of a submission settles, and every timer fires
SpecLive == Init /\ [][Next]_vars /\ WF_vars(GenerateStep)

----------------------------------------------------------------------------
(* Notes view (NotesDisplay): voice selection *)

Voice(name, lang, localService, default) ==
    [t |-> "voice", name |-> name, lang |-> lang,
     localService |-> localService, default |-> default]

PreferredVoiceNames ==
    {"Google US English", "Microsoft David - English (United States)",
     "Microsoft Zira - English (United States)", "Samantha", "Alex",
     "Google UK English Female", "Google UK English Male"}

\* Array.prototype.find: the element at the least of the indices I of the
\* elements satisfying the predicate, or null
FirstAt(s, I) ==
    IF I = {} THEN Null ELSE s[CHOOSE i \in I : \A j \in I : i <= j]

IsEnglish(v) == StartsWith(v.lang, "en-")
IsPreferred(v) == v.name \in PreferredVoiceNames
IsRemote(v) == ~v.localService
IsDefault(v) == v.default

BestVoice_DefaultBeforeRemote(voices) ==
    LET englishVoices == SelectSeq(voices, IsEnglish)
        idx == 1..Len(englishVoices)
        preferred == FirstAt(englishVoices, {i \in idx : IsPreferred(englishVoices[i])})
        remote == FirstAt(englishVoices, {i \in idx : IsRemote(englishVoices[i])})
        def == FirstAt(englishVoices, {i \in idx : IsDefault(englishVoices[i])})
    IN IF preferred # Null THEN preferred
       ELSE IF def # Null THEN def
       ELSE IF remote # Null THEN remote
       ELSE IF Len(englishVoices) > 0 THEN englishVoices[1]
       ELSE Null

\* the voice loadAndSetVoice selects from a non-empty list of voices
BestVoice(voices) ==
    LET englishVoices == SelectSeq(voices, IsEnglish)
        idx == 1..Len(englishVoices)
        preferred == FirstAt(englishVoices, {i \in idx : IsPreferred(englishVoices[i])})
        remote == FirstAt(englishVoices, {i \in idx : IsRemote(englishVoices[i])})
        def == FirstAt(englishVoices, {i \in idx : IsDefault(englishVoices[i])})
    IN IF preferred # Null THEN preferred
       ELSE IF remote # Null THEN remote
       ELSE IF def # Null THEN def
       ELSE IF Len(englishVoices) > 0 THEN englishVoices[1]
       ELSE Null

\* an English voice and a voice of another language: the lists drawn from
\* them make loadAndSetVoice select a voice, or none
VoicePalette ==
    {Voice("Samantha", "en-US", TRUE, TRUE),
     Voice("Anna", "de-DE", TRUE, TRUE)}

VoiceLists == SeqsUpTo(VoicePalette, MaxVoices)

\* the voices speechSynthesis.getVoices() may list: English voices with a
\* preferred name, remote, default and plain, and voices of other languages,
\* one of them with a preferred name, remote and default
VoiceChoices ==
    {Voice("Samantha", "en-US", TRUE, FALSE),
     Voice("Online Natural", "en-GB", FALSE, FALSE),
     Voice("Daniel", "en-GB", TRUE, TRUE),
     Voice("Fred", "en-US", TRUE, FALSE),
     Voice("Alex", "fr-FR", FALSE, TRUE),
     Voice("Anna", "de-DE", TRUE, FALSE)}

\* loadAndSetVoice on one non-empty list of voices
InitVoice ==
    /\ svcFn = "loadAndSetVoice"
    /\ svcIn \in UNION { [1..k -> VoiceChoices] : k \in 1..MaxVoiceListLen }
    /\ svcOut = Pending
    /\ AppIdle
    /\ NarrIdle
    /\ QuizViewIdle
    /\ synthCancelMode = "none"

CallLoadAndSetVoice ==
    /\ svcFn = "loadAndSetVoice"
    /\ svcOut = Pending
    /\ svcOut' = Returned(BestVoice(svcIn))
    /\ UNCHANGED <<svcFn, svcIn, nonSvcVars>>

NextVoice == CallLoadAndSetVoice

SpecVoice == InitVoice /\ [][NextVoice]_vars

----------------------------------------------------------------------------
(* Notes view (NotesDisplay): narration over speechSynthesis *)

NarrSection(k, i) ==
    Section("H" \o ToString(k) \o "." \o ToString(i),
            "C" \o ToString(k) \o "." \o ToString(i), "P")

\* the note sets the parent passes: handleGenerate only sets notes that have
\* at least one section
NoteSets ==
    { [i \in 1..n |-> NarrSection(1, i)] : n \in 1..MaxNarrSections }
        \cup {<<NarrSection(2, 1)>>}

CancelModes == {"none", "error", "end"}

\* new SpeechSynthesisUtterance(`${section.heading}. ${section.content}`),
\* with its voice and the index its handlers close over
Utterance(index, section, voice) ==
    [index |-> index,
     text |-> section.heading.s \o ". " \o section.content.s, voice |-> voice]

BuildUtterances(ns, voice) ==
    [i \in 1..Len(ns) |-> Utterance(i - 1, ns[i], voice)]

Event(type, u) == [type |-> type, u |-> u]

SynthSpeaking == synthActive
SynthPending == Len(synthQueue) > (IF synthActive THEN 1 ELSE 0)

\* the events speechSynthesis.cancel() queues for the utterances it removes:
\* none, an error event for each of them, or an end event for the one that
\* was being spoken, depending on the browser
CancelEvents ==
    CASE synthCancelMode = "error" ->
             [i \in 1..Len(synthQueue) |-> Event("error", synthQueue[i])]
      [] synthCancelMode = "end" ->
             IF synthActive THEN <<Event("end", synthQueue[1])>> ELSE <<>>
      [] OTHER -> <<>>

\* speechSynthesis.cancel(): empties the queue and leaves the paused flag
SynthCancel ==
    /\ Len(synthEvents) + Len(CancelEvents) <= MaxEvents
    /\ synthEvents' = synthEvents \o CancelEvents
    /\ synthActive' = FALSE

InitNarr ==
    /\ svcFn = "none"
    /\ svcIn = Undefined
    /\ svcOut = Pending
    /\ AppIdle
    /\ NarrIdle
    /\ QuizViewIdle
    /\ synthCancelMode \in CancelModes

NotesEffect_NoCancel(ns, voice) ==
    /\ UNCHANGED <<synthEvents, synthActive, synthQueue>>
    /\ playbackState' = "stopped"
    /\ speakingSectionIndex' = -1
    /\ utterancesRef' = BuildUtterances(ns, voice)

\* the effect on [notes, selectedVoice]
NotesEffect(ns, voice) ==
    /\ IF SynthSpeaking \/ SynthPending
       THEN SynthCancel
       ELSE UNCHANGED <<synthEvents, synthActive>>
    /\ synthQueue' = <<>>
    /\ playbackState' = "stopped"
    /\ speakingSectionIndex' = -1
    /\ utterancesRef' = BuildUtterances(ns, voice)

\* the component mounts: the mount effect runs loadAndSetVoice and registers
\* it for voiceschanged, the notes effect builds the utterances
Mount(ns, voices) ==
    /\ ~nvMounted
    /\ nvMounted' = TRUE
    /\ nvNotes' = ns
    /\ selectedVoice' = IF Len(voices) = 0 THEN Null ELSE BestVoice(voices)
    /\ voicesHandler' = TRUE
    /\ NotesEffect(ns, selectedVoice')
    /\ UNCHANGED <<nonNarrVars, synthPaused, synthCancelMode>>

\* the cleanup of the mount effect.  The component state is gone, and the
\* handlers of its utterances only update that state: the events still
\* queued for them, those of this cancel included, have no effect left
Unmount ==
    /\ nvMounted
    /\ synthEvents' = <<>>
    /\ synthActive' = FALSE
    /\ synthQueue' = <<>>
    /\ voicesHandler' = FALSE
    /\ nvMounted' = FALSE
    /\ nvNotes' = <<>>
    /\ selectedVoice' = Null
    /\ playbackState' = "stopped"
    /\ speakingSectionIndex' = -1
    /\ utterancesRef' = <<>>
    /\ UNCHANGED <<nonNarrVars, synthPaused, synthCancelMode>>

\* the parent passes another note set
NotesChanged(ns) ==
    /\ nvMounted
    /\ ns # nvNotes
    /\ nvNotes' = ns
    /\ NotesEffect(ns, selectedVoice)
    /\ UNCHANGED <<nonNarrVars, nvMounted, selectedVoice, synthPaused,
                   voicesHandler, synthCancelMode>>

\* the voiceschanged event runs loadAndSetVoice; a changed selectedVoice
\* re-runs the notes effect
VoicesChanged(voices) ==
    /\ nvMounted
    /\ voicesHandler
    /\ IF Len(voices) = 0
       THEN UNCHANGED narrVars
       ELSE /\ selectedVoice' = BestVoice(voices)
            /\ voicesHandler' = FALSE
            /\ IF selectedVoice' # selectedVoice
               THEN NotesEffect(nvNotes, selectedVoice')
               ELSE UNCHANGED <<synthEvents, synthActive, synthQueue, playbackState,
                                speakingSectionIndex, utterancesRef>>
            /\ UNCHANGED <<nvMounted, nvNotes, synthPaused, synthCancelMode>>
    /\ UNCHANGED nonNarrVars

\* the transport controls are rendered
ControlsShown == nvMounted /\ Len(nvNotes) > 0

HandlePlay_NoCancel ==
    /\ ControlsShown
    /\ IF Len(utterancesRef) = 0 THEN UNCHANGED narrVars
       ELSE IF playbackState = "paused"
       THEN /\ synthPaused' = FALSE
            /\ playbackState' = "playing"
            /\ UNCHANGED <<nvMounted, nvNotes, selectedVoice, speakingSectionIndex,
                           utterancesRef, synthQueue,
                           synthActive, voicesHandler, synthEvents, synthCancelMode>>
       ELSE IF playbackState = "stopped"
       THEN /\ synthQueue' = synthQueue \o utterancesRef
            /\ playbackState' = "playing"
            /\ UNCHANGED <<nvMounted, nvNotes, selectedVoice, speakingSectionIndex,
                           utterancesRef, synthPaused,
                           synthActive, synthEvents, voicesHandler, synthCancelMode>>
       ELSE UNCHANGED narrVars
    /\ UNCHANGED nonNarrVars

\* handlePlay; in state playing the button is disabled and the handler has
\* no branch
HandlePlay ==
    /\ ControlsShown
    /\ IF Len(utterancesRef) = 0 THEN UNCHANGED narrVars
       ELSE IF playbackState = "paused"
       THEN /\ synthPaused' = FALSE
            /\ playbackState' = "playing"
            /\ UNCHANGED <<nvMounted, nvNotes, selectedVoice, speakingSectionIndex,
                           utterancesRef, synthQueue,
                           synthActive, voicesHandler, synthEvents, synthCancelMode>>
       ELSE IF playbackState = "stopped"
       THEN /\ SynthCancel
            /\ synthQueue' = utterancesRef
            /\ playbackState' = "playing"
            /\ UNCHANGED <<nvMounted, nvNotes, selectedVoice, speakingSectionIndex,
                           utterancesRef, synthPaused,
                           voicesHandler, synthCancelMode>>
       ELSE UNCHANGED narrVars
    /\ UNCHANGED nonNarrVars

HandlePause_Unguarded ==
    /\ ControlsShown
    /\ synthPaused' = TRUE
    /\ playbackState' = "paused"
    /\ UNCHANGED <<nonNarrVars, nvMounted, nvNotes, selectedVoice,
                   speakingSectionIndex, utterancesRef,
                   synthQueue, synthActive, voicesHandler, synthEvents,
                   synthCancelMode>>

\* handlePause
HandlePause ==
    /\ ControlsShown
    /\ IF playbackState = "playing"
       THEN /\ synthPaused' = TRUE
            /\ playbackState' = "paused"
       ELSE UNCHANGED <<synthPaused, playbackState>>
    /\ UNCHANGED <<nonNarrVars, nvMounted, nvNotes, selectedVoice,
                   speakingSectionIndex, utterancesRef,
                   synthQueue, synthActive, voicesHandler, synthEvents,
                   synthCancelMode>>

\* handleStop; the button is disabled in state stopped
HandleStop ==
    /\ ControlsShown
    /\ playbackState # "stopped"
    /\ SynthCancel
    /\ synthQueue' = <<>>
    /\ playbackState' = "stopped"
    /\ speakingSectionIndex' = -1
    /\ UNCHANGED <<nonNarrVars, nvMounted, nvNotes, selectedVoice, utterancesRef,
                   synthPaused, voicesHandler,
                   synthCancelMode>>

\* the engine begins to speak the head of its queue
SynthBegin ==
    /\ synthQueue # <<>>
    /\ ~synthActive
    /\ ~synthPaused
    /\ Len(synthEvents) < MaxEvents
    /\ synthActive' = TRUE
    /\ synthEvents' = Append(synthEvents, Event("start", synthQueue[1]))
    /\ UNCHANGED <<nonNarrVars, nvMounted, nvNotes, selectedVoice, playbackState,
                   speakingSectionIndex, utterancesRef,
                   synthQueue, synthPaused, voicesHandler, synthCancelMode>>

\* the utterance being spoken ends
SynthFinish ==
    /\ synthQueue # <<>>
    /\ synthActive
    /\ ~synthPaused
    /\ Len(synthEvents) < MaxEvents
    /\ synthQueue' = Tail(synthQueue)
    /\ synthActive' = FALSE
    /\ synthEvents' = Append(synthEvents, Event("end", synthQueue[1]))
    /\ UNCHANGED <<nonNarrVars, nvMounted, nvNotes, selectedVoice, playbackState,
                   speakingSectionIndex, utterancesRef,
                   synthPaused, voicesHandler, synthCancelMode>>

\* the engine fails on the head of its queue
SynthFail ==
    /\ synthQueue # <<>>
    /\ ~synthPaused
    /\ Len(synthEvents) < MaxEvents
    /\ synthQueue' = Tail(synthQueue)
    /\ synthActive' = FALSE
    /\ synthEvents' = Append(synthEvents, Event("error", synthQueue[1]))
    /\ UNCHANGED <<nonNarrVars, nvMounted, nvNotes, selectedVoice, playbackState,
                   speakingSectionIndex, utterancesRef,
                   synthPaused, voicesHandler, synthCancelMode>>

DeliverEvent_ErrorKeepsHighlight ==
    /\ synthEvents # <<>>
    /\ synthEvents' = Tail(synthEvents)
    /\ LET e == Head(synthEvents) IN
       IF ~nvMounted
       THEN UNCHANGED <<playbackState, speakingSectionIndex>>
       ELSE CASE e.type = "start" ->
                     /\ speakingSectionIndex' = e.u.index
                     /\ UNCHANGED playbackState
              [] e.type = "end" ->
                     IF e.u.index = Len(utterancesRef) - 1
                     THEN /\ playbackState' = "stopped"
                          /\ speakingSectionIndex' = -1
                     ELSE UNCHANGED <<playbackState, speakingSectionIndex>>
              [] OTHER ->
                     /\ playbackState' = "stopped"
                     /\ UNCHANGED speakingSectionIndex
    /\ UNCHANGED <<nonNarrVars, nvMounted, nvNotes, selectedVoice, utterancesRef,
                   synthQueue, synthPaused, synthActive,
                   voicesHandler, synthCancelMode>>

\* the next queued event is dispatched to onstart / onend / onerror
DeliverEvent ==
    /\ synthEvents # <<>>
    /\ synthEvents' = Tail(synthEvents)
    /\ LET e == Head(synthEvents) IN
       IF ~nvMounted
       THEN UNCHANGED <<playbackState, speakingSectionIndex>>
       ELSE CASE e.type = "start" ->
                     /\ speakingSectionIndex' = e.u.index
                     /\ UNCHANGED playbackState
              [] e.type = "end" ->
                     IF e.u.index = Len(utterancesRef) - 1
                     THEN /\ playbackState' = "stopped"
                          /\ speakingSectionIndex' = -1
                     ELSE UNCHANGED <<playbackState, speakingSectionIndex>>
              [] OTHER ->
                     /\ playbackState' = "stopped"
                     /\ speakingSectionIndex' = -1
    /\ UNCHANGED <<nonNarrVars, nvMounted, nvNotes, selectedVoice, utterancesRef,
                   synthQueue, synthPaused, synthActive,
                   voicesHandler, synthCancelMode>>

NextNarr ==
    \/ \E ns \in NoteSets, voices \in VoiceLists : Mount(ns, voices)
    \/ Unmount
    \/ \E ns \in NoteSets : NotesChanged(ns)
    \/ \E voices \in VoiceLists : VoicesChanged(voices)
    \/ HandlePlay
    \/ HandlePause
    \/ HandleStop
    \/ SynthBegin
    \/ SynthFinish
    \/ SynthFail
    \/ DeliverEvent

SpecNarr == InitNarr /\ [][NextNarr]_vars

\* the notes view with its note set and voice left alone and an engine that
\* speaks every utterance to its end
NextNarrSteady ==
    \/ \E ns \in NoteSets, voices \in VoiceLists : Mount(ns, voices)
    \/ Unmount
    \/ HandlePlay
    \/ HandlePause
    \/ HandleStop
    \/ SynthBegin
    \/ SynthFinish
    \/ DeliverEvent

SpecNarrSteady == InitNarr /\ [][NextNarrSteady]_vars

----------------------------------------------------------------------------
(* Quiz view (QuizDisplay) *)

DisplayQuestion(i, a) == Question(JStr("Q" \o ToString(i)), FourOptions, a)

\* the quizzes the view is given: for every length one whose correct answers
\* run through the options, and one whose first correct answer is none of
\* its options
DisplayQuizzes ==
    { [i \in 1..n |-> DisplayQuestion(i, OptionNames[((i - 1) % NumOptions) + 1])] :
        n \in 1..MaxQuestions }
        \cup {<<DisplayQuestion(1, "Z"), DisplayQuestion(2, "A")>>}

totalQuestions == Len(qdQuiz)
currentQuestion == qdQuiz[currentQuestionIndex + 1]

\* answers[index]
AnswerOf(as, index) == IF index \in DOMAIN as THEN JStr(as[index]) ELSE Undefined

\* Object.keys(answers).length
AnsweredCount(as) == Cardinality(DOMAIN as)

\* quiz.reduce((total, question, index) => ..., 0) from position index on
RECURSIVE ScoreReduce(_, _, _, _)
ScoreReduce(q, as, index, total) ==
    IF index >= Len(q) THEN total
    ELSE ScoreReduce(q, as, index + 1,
                     IF AnswerOf(as, index) = q[index + 1].correctAnswer
                     THEN total + 1 ELSE total)

Score_SkipsFirst(q, as) == ScoreReduce(q, as, 1, 0)

Score(q, as) == ScoreReduce(q, as, 0, 0)

\* Math.round((score / totalQuestions) * 100): the quotient rounded to the
\* nearest integer, a half rounded up
ScorePercentage(s, total) == (200 * s + total) \div (2 * total)

Feedback_AtLeast80(scorePercentage) ==
    IF scorePercentage >= 80 THEN "Excellent work!"
    ELSE IF scorePercentage > 50 THEN "Good job!"
    ELSE "Great effort!"

Feedback(scorePercentage) ==
    IF scorePercentage > 80 THEN "Excellent work!"
    ELSE IF scorePercentage > 50 THEN "Good job!"
    ELSE "Great effort!"

\* the view right after it is mounted with a quiz
InitQuiz ==
    /\ svcFn = "none"
    /\ svcIn = Undefined
    /\ svcOut = Pending
    /\ AppIdle
    /\ NarrIdle
    /\ synthCancelMode = "none"
    /\ qdQuiz \in DisplayQuizzes
    /\ currentQuestionIndex = 0
    /\ answers = NoAnswers

\* the options rendered as buttons for the current question
OptionsShown ==
    { currentQuestion.options.items[k].s :
        k \in 1..Len(currentQuestion.options.items) }

HandleAnswerSelect_Replace(option) ==
    /\ ~showResults
    /\ option \in OptionsShown
    /\ answers' = [i \in {currentQuestionIndex} |-> option]
    /\ UNCHANGED <<nonQuizViewVars, showResults, qdQuiz, currentQuestionIndex>>

\* handleAnswerSelect: { ...prev, [currentQuestionIndex]: option }
HandleAnswerSelect(option) ==
    /\ ~showResults
    /\ option \in OptionsShown
    /\ answers' = [i \in DOMAIN answers \cup {currentQuestionIndex} |->
                      IF i = currentQuestionIndex THEN option ELSE answers[i]]
    /\ UNCHANGED <<nonQuizViewVars, showResults, qdQuiz, currentQuestionIndex>>

HandleNext_Unbounded ==
    /\ ~showResults
    /\ currentQuestionIndex' = currentQuestionIndex + 1
    /\ UNCHANGED <<nonQuizViewVars, showResults, qdQuiz, answers>>

\* handleNext, called in any question of the question view
HandleNext ==
    /\ ~showResults
    /\ IF currentQuestionIndex < totalQuestions - 1
       THEN currentQuestionIndex' = currentQuestionIndex + 1
       ELSE UNCHANGED currentQuestionIndex
    /\ UNCHANGED <<nonQuizViewVars, showResults, qdQuiz, answers>>

\* handlePrev, called in any question of the question view
HandlePrev ==
    /\ ~showResults
    /\ IF currentQuestionIndex > 0
       THEN currentQuestionIndex' = currentQuestionIndex - 1
       ELSE UNCHANGED currentQuestionIndex
    /\ UNCHANGED <<nonQuizViewVars, showResults, qdQuiz, answers>>

\* the Submit Quiz button is rendered, and it is not disabled
SubmitShown == ~showResults /\ currentQuestionIndex = totalQuestions - 1
SubmitEnabled == AnsweredCount(answers) = totalQuestions

HandleSubmit_AnyTime ==
    /\ SubmitShown
    /\ showResults' = TRUE
    /\ UNCHANGED <<nonQuizViewVars, quizViewVars>>

\* handleSubmit, reached through the Submit Quiz button
HandleSubmit ==
    /\ SubmitShown
    /\ SubmitEnabled
    /\ showResults' = TRUE
    /\ UNCHANGED <<nonQuizViewVars, quizViewVars>>

HandleRetake_KeepAnswers ==
    /\ showResults
    /\ currentQuestionIndex' = 0
    /\ showResults' = FALSE
    /\ UNCHANGED <<nonQuizViewVars, qdQuiz, answers>>

\* handleRetake, reached through the Try Again button of the results view
HandleRetake ==
    /\ showResults
    /\ answers' = NoAnswers
    /\ currentQuestionIndex' = 0
    /\ showResults' = FALSE
    /\ UNCHANGED <<nonQuizViewVars, qdQuiz>>

NextQuiz ==
    \/ \E option \in { OptionNames[k] : k \in 1..Len(OptionNames) } :
           HandleAnswerSelect(option)
    \/ HandleNext
    \/ HandlePrev
    \/ HandleSubmit
    \/ HandleRetake

SpecQuiz == InitQuiz /\ [][NextQuiz]_vars

\* the feedback of the results view, for one score out of one total
FeedbackInputs ==
    UNION { { [score |-> sc, total |-> n] : sc \in 0..n } : n \in 1..MaxTotalQuestions }

InitFeedback ==
    /\ svcFn = "feedback"
    /\ svcIn \in FeedbackInputs
    /\ svcOut = Pending
    /\ AppIdle
    /\ NarrIdle
    /\ QuizViewIdle
    /\ synthCancelMode = "none"

CallFeedback ==
    /\ svcFn = "feedback"
    /\ svcOut = Pending
    /\ svcOut' = Returned(Feedback(ScorePercentage(svcIn.score, svcIn.total)))
    /\ UNCHANGED <<svcFn, svcIn, nonSvcVars>>

NextFeedback == CallFeedback

SpecFeedback == InitFeedback /\ [][NextFeedback]_vars

----------------------------------------------------------------------------
(* Claims about the generation client (checked under SpecGen) *)

C1_NoGeneratedImage(o) ==
    \/ o.kind = "reject"
    \/ IsNullish(o.generatedImages)
    \/ Len(o.generatedImages.items) = 0
    \/ IsNullish(o.generatedImages.items[1])
    \/ IsNullish(Get(o.generatedImages.items[1], "image"))

C1_ImageSuccess(o) ==
    /\ ~C1_NoGeneratedImage(o)
    /\ Get(Get(o.generatedImages.items[1], "image"), "imageBytes").t = "str"

\* C1: generateImage never raises.  Whatever the image call does, the result
\* is a returned string; when the call rejects or the response holds no
\* generated image the result is exactly the placeholder URL, and on success
\* it starts with 'data:image/jpeg;base64,'.
C1_GenerateImageNeverRaises ==
    (svcFn = "generateImage" /\ svcOut # Pending) =>
        /\ svcOut.state = "returned"
        /\ C1_NoGeneratedImage(svcIn) => svcOut.value = PlaceholderUrl
        /\ C1_ImageSuccess(svcIn) =>
               /\ StartsWith(svcOut.value, DataUriPrefix)
               /\ svcOut.value # PlaceholderUrl

C1_Witness ==
    /\ svcFn = "generateImage"
    /\ svcIn = ImageResponse(JArr(<<>>))
    /\ svcOut = Returned(PlaceholderUrl)

C2_Malformed(v) ==
    \/ ~IsArray(v)
    \/ Len(v.items) = 0
    \/ (~IsNullish(v.items[1]) /\ ~Truthy(Get(v.items[1], "question")))

C2_Parsed(o) == o.kind = "response" /\ o.text.t = "text" /\ o.text.parses

\* C2: when the parsed quiz response is not an array, is an empty array, or
\* has a first element without `question`, generateQuiz fails with the
\* "invalid quiz data" error, which differs from the generic error raised on
\* a transport or parse failure.
C2_InvalidQuizDataError ==
    (svcFn = "generateQuiz" /\ svcOut # Pending) =>
        /\ QuizInvalidMsg # QuizFailedMsg
        /\ (C2_Parsed(svcIn) /\ C2_Malformed(svcIn.text.value)) =>
               svcOut = Raised(QuizInvalidMsg)
        /\ ~C2_Parsed(svcIn) => svcOut = Raised(QuizFailedMsg)

C3_WellFormedQuiz(v) ==
    /\ IsArray(v)
    /\ Len(v.items) = QuizLength
    /\ \A i \in 1..Len(v.items) :
           /\ v.items[i].t = "obj"
           /\ \E j \in 1..Len(v.items[i].options.items) :
                  v.items[i].options.items[j] = v.items[i].correctAnswer

\* C3: every quiz that generateQuiz returns, and every quiz the app holds,
\* has exactly 10 questions, each with correctAnswer among its options.
C3_EveryQuizWellFormed ==
    /\ (svcFn = "generateQuiz" /\ svcOut.state = "returned") =>
           C3_WellFormedQuiz(svcOut.value)
    /\ quiz # Null => C3_WellFormedQuiz(quiz)

C4_NonEmptySections(v) ==
    /\ IsArray(v)
    /\ Len(v.items) >= 1
    /\ \A i \in 1..Len(v.items) :
           /\ Truthy(Get(v.items[i], "heading"))
           /\ Truthy(Get(v.items[i], "content"))
           /\ Truthy(Get(v.items[i], "imagePrompt"))

\* C4 as written: a generateNotes call that returns successfully returns a
\* non-empty sequence of sections, each with non-empty heading, content and
\* imagePrompt.
C4_NotesNonEmpty ==
    (svcFn = "generateNotes" /\ svcOut.state = "returned") =>
        C4_NonEmptySections(svcOut.value)

\* C4 as amended: a generateNotes call that returns successfully returns
\* exactly the value parsed from the response text, its sections in response
\* order; nothing is checked, so the sequence may be empty and the fields may
\* be empty.  Every other outcome raises the "failed to generate notes" error.
C4_NotesAsParsed ==
    (svcFn = "generateNotes" /\ svcOut # Pending) =>
        IF C2_Parsed(svcIn)
        THEN svcOut = Returned(svcIn.text.value)
        ELSE svcOut = Raised(NotesFailedMsg)

C4_Witness ==
    /\ svcFn = "generateNotes"
    /\ svcOut.state = "returned"
    /\ IsArray(svcOut.value)
    /\ Len(svcOut.value.items) = 2
    /\ svcOut.value.items[1] # svcOut.value.items[2]
    /\ svcOut.value.items[1].heading = JStr("")

----------------------------------------------------------------------------
(* Claims about the application shell (checked under Spec) *)

\* C5: if generateNotes fails during a submission, then when the handler
\* finishes the notes error is set, notes is null, isLoading is false, no
\* image request was issued, and the quiz state is idle with no quiz.
C5_NotesFailureOutcome ==
    [][\A o \in AppNotesOutcomes :
          (NotesSettled(o) /\ generateNotes(o).state = "raised") =>
              /\ error' # Null
              /\ notes' = Null
              /\ isLoading' = FALSE
              /\ TopicFormShown'
              /\ imgTasks' = <<>>
              /\ quizState' = "idle"
              /\ quiz' = Null]_vars

\* C6: a failed illustration never blocks the notes.  An image call that
\* fails gives its section the placeholder URL and sets no error; when the
\* last image call of the batch settles, the submission ends with notes
\* holding all N sections in order, each with the URL its own call produced
\* (the placeholder for the failed ones), isLoading false and the notes
\* error null.
C6_ImageFailureNeverBlocks ==
    [][\A i \in 1..Len(imgTasks), o \in AppImageOutcomes :
          ImageSettled(i, o) =>
              /\ error' = Null
              /\ IF \A j \in 1..Len(imgTasks) : j # i => imgTasks[j].pc = "done"
                 THEN /\ notes' # Null
                      /\ Len(notes'.items) = Len(structuredNotes.items)
                      /\ \A j \in 1..Len(imgTasks) :
                             /\ notes'.items[j].heading = structuredNotes.items[j].heading
                             /\ notes'.items[j].content = structuredNotes.items[j].content
                             /\ notes'.items[j].imagePrompt =
                                    structuredNotes.items[j].imagePrompt
                             /\ j # i => notes'.items[j].imageUrl =
                                             JStr(imgTasks[j].imageUrl)
                      /\ IF C1_NoGeneratedImage(o)
                         THEN notes'.items[i].imageUrl = JStr(PlaceholderUrl)
                         ELSE StartsWith(notes'.items[i].imageUrl.s, DataUriPrefix)
                      /\ isLoading' = FALSE
                      /\ genPc' = "idle"
                 ELSE /\ genPc' = "awaitImages"
                      /\ notes' = Null
                      /\ isLoading' = TRUE
                      /\ C1_NoGeneratedImage(o) =>
                             imgTasks'[i] = [pc |-> "done", imageUrl |-> PlaceholderUrl]
                      /\ \A j \in 1..Len(imgTasks) :
                             j # i => imgTasks'[j] = imgTasks[j]]_vars

C6_Witness ==
    /\ genPc = "idle"
    /\ ~isLoading
    /\ error = Null
    /\ notes # Null
    /\ Len(notes.items) >= 2
    /\ notes.items[1].imageUrl = JStr(PlaceholderUrl)
    /\ StartsWith(notes.items[2].imageUrl.s, DataUriPrefix)

\* C7: immediately after a submission starts, notes and quiz are null,
\* quizState is idle, error and quizError are null, isLoading is true and
\* topic is the submitted topic, whatever the state was before.
C7_SubmitClearsEverything ==
    [][\A t \in Topics :
          HandleGenerate(t) =>
              /\ notes' = Null
              /\ quiz' = Null
              /\ quizState' = "idle"
              /\ error' = Null
              /\ quizError' = Null
              /\ isLoading' = TRUE
              /\ topic' = t]_vars

\* a submission made while an earlier quiz request is still running
C7_Witness ==
    /\ genPc = "awaitNotes"
    /\ isLoading
    /\ topic \in Topics
    /\ notes = Null /\ quiz = Null /\ error = Null /\ quizError = Null
    /\ quizReqs # EmptyBag

\* C8: if generateQuiz fails after 'start quiz', quizState reverts to idle,
\* quizError is set and no quiz is held, while notes, topic and the notes
\* error are left as they were.
C8_QuizFailureOutcome ==
    [][\A req \in BagToSet(quizReqs), o \in AppQuizOutcomes :
          (QuizSettled(req, o) /\ generateQuiz(o).state = "raised") =>
              /\ quizState' = "idle"
              /\ quizError' # Null
              /\ quiz' = Null
              /\ notes' = notes /\ topic' = topic /\ error' = error]_vars

\* C9: "Start a new topic" resets notes, quiz, error and quizError to null,
\* quizState to idle and topic to empty, and the quiz stays discarded: as
\* long as no notes are held again (so no quiz can have been started again),
\* quiz stays null and quizState idle, also when a quiz request that was
\* running at the reset settles afterwards.
C9_ResetDiscardsQuiz ==
    [][/\ HandleReset =>
              /\ notes' = Null /\ quiz' = Null /\ error' = Null
              /\ quizError' = Null /\ quizState' = "idle" /\ topic' = ""
       /\ (notes = Null /\ quiz = Null /\ quizState = "idle" /\ notes' = Null) =>
              (quiz' = Null /\ quizState' = "idle" /\ ~QuizViewShown')]_vars

----------------------------------------------------------------------------
(* Claims about the narration of the notes view (checked under SpecNarr) *)

C10_OnePerSection(q) ==
    \A i, j \in 1..Len(q) : i # j => q[i].index # q[j].index

\* C10: play from state stopped with N >= 1 sections cancels what the speech
\* engine holds, then enqueues exactly N utterances, one per section in
\* document order, and sets the state to playing; the engine queue never
\* holds more than one utterance per section; play in state playing changes
\* nothing.
C10_PlayFromStopped ==
    [][/\ (HandlePlay /\ playbackState = "stopped" /\ Len(nvNotes) >= 1) =>
              /\ synthEvents' = synthEvents \o CancelEvents
              /\ Len(synthQueue') = Len(nvNotes)
              /\ \A i \in 1..Len(nvNotes) :
                     /\ synthQueue'[i].index = i - 1
                     /\ synthQueue'[i].text =
                            nvNotes[i].heading.s \o ". " \o nvNotes[i].content.s
              /\ playbackState' = "playing"
       /\ (HandlePlay /\ playbackState = "playing") => UNCHANGED vars
       /\ C10_OnePerSection(synthQueue')
       /\ Len(synthQueue') <= Len(nvNotes)]_vars

\* play has acted in state stopped: the queue holds the two utterances in
\* order, none has begun, and the error event of an utterance removed by a
\* cancel is still queued
C10_Witness ==
    /\ playbackState = "playing"
    /\ Len(nvNotes) = 2
    /\ synthQueue = utterancesRef
    /\ Len(synthQueue) = 2
    /\ ~synthActive
    /\ synthCancelMode = "error"
    /\ synthEvents = <<Event("error", utterancesRef[2])>>


----------------------------------------------------------------------------
(* Claims about stop, pause and completion of the narration *)

\* C11: stop from playing or paused empties the engine (nothing queued,
\* nothing being spoken), sets the state to stopped and clears the highlight;
\* while the state stays stopped with an empty engine, no utterance starts
\* and the highlight stays cleared.  Checked under SpecNarrSteady, where only
\* the transport controls and the engine act on a mounted view.
C11_StopClearsSpeech ==
    [][/\ HandleStop =>
              /\ synthQueue' = <<>>
              /\ ~synthActive'
              /\ playbackState' = "stopped"
              /\ speakingSectionIndex' = -1
       /\ (/\ playbackState = "stopped" /\ playbackState' = "stopped"
           /\ synthQueue = <<>> /\ speakingSectionIndex = -1) =>
              /\ ~synthActive'
              /\ speakingSectionIndex' = -1]_vars

\* C12: pause in state playing moves to paused and pauses the engine without
\* touching its queue; pause in another state changes nothing; play in state
\* paused moves to playing and resumes the engine with the same queue, with
\* no cancel and nothing enqueued.
C12_PauseResumeKeepQueue ==
    [][/\ (HandlePause /\ playbackState = "playing") =>
              /\ playbackState' = "paused"
              /\ synthPaused'
              /\ UNCHANGED <<synthQueue, synthActive, synthEvents, utterancesRef,
                             speakingSectionIndex>>
       /\ (HandlePause /\ playbackState # "playing") => UNCHANGED vars
       /\ (HandlePlay /\ playbackState = "paused") =>
              /\ playbackState' = "playing"
              /\ ~synthPaused'
              /\ UNCHANGED <<synthQueue, synthActive, synthEvents, utterancesRef,
                             speakingSectionIndex>>]_vars

\* pause has acted while the first of two sections was being spoken: both
\* utterances are still in the engine
C12_Witness ==
    /\ playbackState = "paused"
    /\ synthPaused
    /\ synthActive
    /\ synthQueue = utterancesRef
    /\ Len(synthQueue) = 2
    /\ speakingSectionIndex = 0

\* C13: with the note set and voice left alone and every utterance spoken to
\* its end, the state leaves playing by itself exactly when the final
\* utterance has ended: the end of the final utterance, with nothing left in
\* the engine, sets stopped and clears the highlight, and no other event
\* delivered in state playing changes the state.
C13_NaturalCompletion ==
    [][(DeliverEvent /\ nvMounted /\ playbackState = "playing") =>
          LET e == Head(synthEvents) IN
          IF e.type = "end" /\ e.u.index = Len(utterancesRef) - 1
          THEN /\ synthQueue = <<>>
               /\ playbackState' = "stopped"
               /\ speakingSectionIndex' = -1
          ELSE playbackState' = "playing"]_vars

C14_BuiltFrom(u, ns, voice) ==
    /\ u.index \in 0..(Len(ns) - 1)
    /\ u.text = ns[u.index + 1].heading.s \o ". " \o ns[u.index + 1].content.s
    /\ u.voice = voice

\* C14: when the note set changes, and when the notes view is left, the
\* engine is emptied; a changed note set leaves the state stopped with no
\* highlight and one utterance per section of the new note set; the engine
\* never holds an utterance that was not built from the current note set.
C14_NoStaleSpeech ==
    [][/\ \A ns \in NoteSets : NotesChanged(ns) =>
              /\ synthQueue' = <<>>
              /\ ~synthActive'
              /\ playbackState' = "stopped"
              /\ speakingSectionIndex' = -1
              /\ Len(utterancesRef') = Len(ns)
              /\ \A i \in 1..Len(ns) :
                     /\ utterancesRef'[i].index = i - 1
                     /\ C14_BuiltFrom(utterancesRef'[i], ns, selectedVoice)
       /\ Unmount => (synthQueue' = <<>> /\ ~synthActive')
       /\ \A i \in 1..Len(synthQueue') :
              C14_BuiltFrom(synthQueue'[i], nvNotes', selectedVoice')]_vars

\* the note set changed while the engine held an utterance of the earlier
\* one: the cancel removed it (its error event is still queued) and the
\* engine is empty
C14_Witness ==
    /\ nvMounted
    /\ nvNotes = <<NarrSection(2, 1)>>
    /\ playbackState = "stopped"
    /\ speakingSectionIndex = -1
    /\ synthQueue = <<>>
    /\ synthEvents # <<>>
    /\ synthEvents[1].type = "error"
    /\ synthEvents[1].u.text = "H1.1. C1.1"


----------------------------------------------------------------------------
(* Claims about the quiz view (checked under SpecQuiz and SpecFeedback) *)

\* C15: for a quiz of length L >= 1 the question cursor is always within
\* [0, L-1], whatever sequence of next, prev, select, submit and retake has
\* run; next at L-1 and prev at 0 leave the cursor unchanged.
C15_CursorInRange ==
    /\ [](totalQuestions >= 1 /\ currentQuestionIndex \in 0..(totalQuestions - 1))
    /\ [][/\ (HandleNext /\ currentQuestionIndex = totalQuestions - 1) =>
                 UNCHANGED currentQuestionIndex
          /\ (HandlePrev /\ currentQuestionIndex = 0) =>
                 UNCHANGED currentQuestionIndex]_vars

\* the cursor stands on the last of three questions, in the question view
C15_Witness ==
    /\ totalQuestions = 3
    /\ currentQuestionIndex = 2
    /\ ~showResults
    /\ AnsweredCount(answers) = 0

C16_AllAnswered ==
    \A i \in 0..(totalQuestions - 1) : i \in DOMAIN answers

\* C16: the results mode is never shown while a question index in [0, L-1]
\* has no recorded answer; while the results are shown the answer map and the
\* cursor do not change, and only retake leaves the results mode.
C16_SubmitNeedsAllAnswers ==
    /\ [](showResults => C16_AllAnswered)
    /\ [][/\ (showResults /\ showResults') =>
                 UNCHANGED <<answers, currentQuestionIndex>>
          /\ (showResults /\ ~showResults') => HandleRetake
          /\ (~showResults /\ showResults') => (HandleSubmit /\ C16_AllAnswered)]_vars

\* the results of a three-question quiz are shown
C16_Witness ==
    /\ showResults
    /\ totalQuestions = 3
    /\ AnsweredCount(answers) = 3

\* the indices whose recorded answer is the question's correctAnswer
C17_CorrectIndices ==
    { i \in 0..(totalQuestions - 1) :
        i \in DOMAIN answers /\ JStr(answers[i]) = qdQuiz[i + 1].correctAnswer }

\* C17: the score is the number of question indices whose recorded answer
\* equals the question's correctAnswer, an unanswered question counting as
\* wrong, so that 0 <= score <= number of answered questions <= L.
C17_ScoreCountsCorrect ==
    /\ Score(qdQuiz, answers) = Cardinality(C17_CorrectIndices)
    /\ 0 <= Score(qdQuiz, answers)
    /\ Score(qdQuiz, answers) <= AnsweredCount(answers)
    /\ AnsweredCount(answers) <= totalQuestions

\* correct answers [A, B] with answers {0: A, 1: C}: the score is 1
C17_Witness ==
    /\ totalQuestions = 2
    /\ qdQuiz[1].correctAnswer = JStr("A")
    /\ qdQuiz[2].correctAnswer = JStr("B")
    /\ DOMAIN answers = {0, 1}
    /\ answers[0] = "A"
    /\ answers[1] = "C"
    /\ Score(qdQuiz, answers) = 1

\* p is the percentage 100 * sc / total rounded to the nearest integer
C18_IsRounded(p, sc, total) ==
    /\ 2 * total * p <= 200 * sc + total
    /\ 200 * sc + total < 2 * total * (p + 1)

C18_Tiers == {"Excellent work!", "Good job!", "Great effort!"}

\* C18: for every score sc in 0..L the feedback is exactly one of the three
\* tiers, chosen by the rounded percentage p: "Excellent work!" iff p > 80,
\* "Good job!" iff 50 < p <= 80, "Great effort!" iff p <= 50.
C18_FeedbackTiers ==
    svcOut # Pending =>
        /\ svcOut.state = "returned"
        /\ svcOut.value \in C18_Tiers
        /\ \A p \in 0..100 :
               C18_IsRounded(p, svcIn.score, svcIn.total) =>
                   /\ svcOut.value = "Excellent work!" <=> p > 80
                   /\ svcOut.value = "Good job!" <=> (50 < p /\ p <= 80)
                   /\ svcOut.value = "Great effort!" <=> p <= 50

\* 13 of 16 is 81 percent: excellent
C18_Witness ==
    /\ svcIn = [score |-> 13, total |-> 16]
    /\ C18_IsRounded(81, svcIn.score, svcIn.total)
    /\ svcOut = Returned("Excellent work!")

\* C19: retake empties the answer map, puts the cursor on question 0 and
\* leaves the results mode; the quiz is unchanged; after it the score is 0
\* and submit is disabled.
C19_RetakeResets ==
    [][HandleRetake =>
          /\ answers' = NoAnswers
          /\ AnsweredCount(answers') = 0
          /\ currentQuestionIndex' = 0
          /\ ~showResults'
          /\ qdQuiz' = qdQuiz
          /\ Score(qdQuiz', answers') = 0
          /\ ~SubmitEnabled']_vars

\* retake is offered: the results of a two-question quiz are shown, with a
\* score above 0 and the cursor on the last question
C19_Witness ==
    /\ showResults
    /\ totalQuestions = 2
    /\ currentQuestionIndex = 1
    /\ Score(qdQuiz, answers) >= 1

\* C20: selecting an option on question i records it as the answer of i and
\* changes nothing else: the other answers, the cursor and the quiz are
\* unchanged; selecting the option already recorded changes nothing; the
\* answer map has keys in [0, L-1] only; the number of answered questions
\* decreases on retake only.
C20_SelectOverwrites ==
    [][/\ \A option \in { OptionNames[k] : k \in 1..Len(OptionNames) } :
              HandleAnswerSelect(option) =>
                  /\ DOMAIN answers' = DOMAIN answers \cup {currentQuestionIndex}
                  /\ answers'[currentQuestionIndex] = option
                  /\ \A i \in DOMAIN answers :
                         i # currentQuestionIndex => answers'[i] = answers[i]
                  /\ UNCHANGED <<currentQuestionIndex, qdQuiz, showResults>>
                  /\ (AnswerOf(answers, currentQuestionIndex) = JStr(option)) =>
                         answers' = answers
       /\ DOMAIN answers' \subseteq 0..(totalQuestions' - 1)
       /\ AnsweredCount(answers') < AnsweredCount(answers) => HandleRetake]_vars

\* the answer of question 1 was selected after that of question 0, which is
\* kept
C20_Witness ==
    /\ totalQuestions = 3
    /\ currentQuestionIndex = 1
    /\ DOMAIN answers = {0, 1}
    /\ answers[0] = "A"
    /\ answers[1] = "D"
    /\ ~showResults


----------------------------------------------------------------------------
(* Claims about the image batch, the quiz requests and the outcome of a    *)
(* submission (checked under Spec and SpecLive)                            *)

\* the URL generateImage returns for a response
C21_UrlOf(o) == generateImage(o).value

\* C21: in whatever order the N image tasks complete, notes stays null and
\* isLoading true until the last of them has completed, and the notes then
\* set hold the N sections in generation order, section j with the URL that
\* task j, called for the imagePrompt of section j, produced.
C21_BatchKeepsOrder ==
    /\ [](genPc = "awaitImages" =>
             /\ notes = Null
             /\ isLoading
             /\ Len(imgTasks) = Len(structuredNotes.items))
    /\ [][\A i \in 1..Len(imgTasks), o \in AppImageOutcomes :
             ImageSettled(i, o) =>
                 LET urls == [j \in 1..Len(imgTasks) |->
                                 IF j = i THEN C21_UrlOf(o) ELSE imgTasks[j].imageUrl]
                     last == \A j \in 1..Len(imgTasks) :
                                 j # i => imgTasks[j].pc = "done"
                 IN IF last
                    THEN notes' = JArr([j \in 1..Len(imgTasks) |->
                                    [t |-> "obj",
                                     heading |-> structuredNotes.items[j].heading,
                                     content |-> structuredNotes.items[j].content,
                                     imagePrompt |-> structuredNotes.items[j].imagePrompt,
                                     imageUrl |-> JStr(urls[j])]])
                    ELSE notes' = Null /\ isLoading']_vars

\* the second image task has completed with an image while the first, which
\* was started before it, is still running
C21_Witness ==
    /\ genPc = "awaitImages"
    /\ Len(imgTasks) >= 2
    /\ imgTasks[1].pc = "inflight"
    /\ imgTasks[2].pc = "done"
    /\ StartsWith(imgTasks[2].imageUrl, DataUriPrefix)
    /\ notes = Null

\* C22: whenever a quiz is active, notes is non-null; a quiz response is only
\* ever shown when it was requested with the notes and the topic the app
\* holds when it arrives.
C22_ActiveQuizMatchesNotes ==
    /\ []((quizState = "active" /\ quiz # Null) => notes # Null)
    /\ [][\A req \in BagToSet(quizReqs), o \in AppQuizOutcomes :
             (QuizSettled(req, o) /\ quizState' = "active") =>
                 /\ notes' # Null
                 /\ req.notes = notes'
                 /\ req.topic = topic']_vars

\* C25: notes and the notes error are never present together, notes are
\* never present while isLoading is true, every submission whose remote
\* calls settle ends (isLoading becomes false again), and it ends in exactly
\* one of: notes set with no error, or error set with no notes.
C25_OneOutcome ==
    /\ [](~(notes # Null /\ error # Null))
    /\ [](notes # Null => ~isLoading)
    /\ [][(isLoading /\ ~isLoading') =>
             \/ (notes' # Null /\ error' = Null)
             \/ (notes' = Null /\ error' # Null)]_vars
    /\ (isLoading ~> ~isLoading)

\* a submission has ended in the error outcome
C25_Witness ==
    /\ ~isLoading
    /\ genPc = "idle"
    /\ error = JStr(NotesFailedMsg)
    /\ notes = Null
    /\ topic \in Topics

\* C26: notes, when non-null, hold at least one section and every section
\* has an imageUrl; a notes response with zero sections starts no image
\* task and ends the submission with the error set and notes null.
C26_NotesNeverEmpty ==
    /\ [](notes # Null =>
             /\ Len(notes.items) >= 1
             /\ \A j \in 1..Len(notes.items) :
                    /\ Get(notes.items[j], "imageUrl") # Undefined
                    /\ Get(notes.items[j], "imageUrl").s # "")
    /\ [][\A o \in AppNotesOutcomes :
             (/\ NotesSettled(o)
              /\ generateNotes(o).state = "returned"
              /\ IsArray(generateNotes(o).value)
              /\ Len(generateNotes(o).value.items) = 0) =>
                 /\ imgTasks' = <<>>
                 /\ genPc' = "idle"
                 /\ error' = JStr(EmptyNotesMsg)
                 /\ notes' = Null
                 /\ ~isLoading']_vars

\* a notes response with zero sections has ended the submission
C26_Witness ==
    /\ error = JStr(EmptyNotesMsg)
    /\ notes = Null
    /\ ~isLoading
    /\ genPc = "idle"
    /\ imgTasks = <<>>

\* C27: a submission issues one notes request, and only when none is
\* running; a notes response of N >= 1 sections starts N image tasks, each
\* issuing its request once; start quiz issues one quiz request, or none
\* when notes is null; a failure issues nothing; at most one quiz request is
\* outstanding at any time.
C27_SingleShot ==
    /\ [](BagCardinality(quizReqs) <= 1)
    /\ [][/\ \A t \in Topics :
                HandleGenerate(t) => (genPc = "idle" /\ genPc' = "awaitNotes")
          /\ \A o \in AppNotesOutcomes :
                NotesSettled(o) =>
                    /\ genPc' # "awaitNotes"
                    /\ \A j \in 1..Len(imgTasks') : imgTasks'[j].pc = "delay"
                    /\ genPc' = "awaitImages" =>
                           Len(imgTasks') = Len(generateNotes(o).value.items)
          /\ \A i \in 1..Len(imgTasks) :
                ImageTimer(i) =>
                    \A j \in 1..Len(imgTasks) :
                        (imgTasks'[j].pc = "inflight" /\ imgTasks[j].pc # "inflight")
                            <=> j = i
          /\ HandleStartQuiz =>
                BagCardinality(quizReqs') =
                    BagCardinality(quizReqs) + (IF notes = Null THEN 0 ELSE 1)
          /\ \A req \in BagToSet(quizReqs), o \in AppQuizOutcomes :
                QuizSettled(req, o) =>
                    BagCardinality(quizReqs') = BagCardinality(quizReqs) - 1]_vars


----------------------------------------------------------------------------
(* Claims about the consistency of the narration state (checked under      *)
(* SpecNarr)                                                               *)

\* C23: once every event of the engine has been dispatched, playbackState is
\* stopped exactly when the engine holds no utterance, in state stopped no
\* section is highlighted and nothing is being spoken, and a highlighted
\* section is the one whose utterance the engine is speaking, in state
\* playing or paused.
C23_StateMatchesEngine ==
    (nvMounted /\ synthEvents = <<>>) =>
        /\ (playbackState = "stopped") <=> (synthQueue = <<>>)
        /\ playbackState = "stopped" =>
               (speakingSectionIndex = -1 /\ ~synthActive)
        /\ speakingSectionIndex # -1 =>
               /\ playbackState \in {"playing", "paused"}
               /\ synthActive
               /\ synthQueue[1].index = speakingSectionIndex

\* C24: the error event of any utterance, dispatched in any state of the
\* view, sets playbackState to stopped and clears the highlight.
C24_ErrorResets ==
    [][(DeliverEvent /\ nvMounted /\ Head(synthEvents).type = "error") =>
          /\ playbackState' = "stopped"
          /\ speakingSectionIndex' = -1]_vars

\* the middle one of three utterances has failed while it was highlighted,
\* the user has paused, and its error event is the next to be dispatched
C24_Witness ==
    /\ nvMounted
    /\ Len(utterancesRef) = 3
    /\ playbackState = "paused"
    /\ speakingSectionIndex = 1
    /\ synthEvents # <<>>
    /\ synthEvents[1].type = "error"
    /\ synthEvents[1].u.index = 1


----------------------------------------------------------------------------
(* Claims about the voice selection (checked under SpecVoice) *)

C28_Least(I) == CHOOSE i \in I : \A j \in I : i <= j

C28_Named(voices, I) == { i \in I : voices[i].name \in PreferredVoiceNames }
C28_NonLocal(voices, I) == { i \in I : ~voices[i].localService }
C28_EngineDefault(voices, I) == { i \in I : voices[i].default }

\* the first applicable of: a voice at an index of I with a preferred name,
\* a non-local one, the default one, the first one
C28_ByPrecedence(voices, I) ==
    IF C28_Named(voices, I) # {} THEN voices[C28_Least(C28_Named(voices, I))]
    ELSE IF C28_NonLocal(voices, I) # {} THEN voices[C28_Least(C28_NonLocal(voices, I))]
    ELSE IF C28_EngineDefault(voices, I) # {}
    THEN voices[C28_Least(C28_EngineDefault(voices, I))]
    ELSE voices[C28_Least(I)]

====
